---- MODULE Spec2Model ----
(***************************************************************************)
(* RingCentral <-> LiveKit connector (src/src/index.ts).                   *)
(*                                                                         *)
(* The model follows the JavaScript run-to-completion discipline: a        *)
(* handler or the synchronous part of an async function between two awaits *)
(* is never interleaved with another handler.  An outbound pipeline is     *)
(* suspended only at `for await` (pc "await") and at the implicit          *)
(* iterator return() after `break` (pc "breaking"); its slice loop and its *)
(* finally block run with every other actor held back.                     *)
(*                                                                         *)
(* A Buffer is modelled by the identity of its bytes: a sequence of        *)
(* segments [off, len], off being the position of the segment's first byte *)
(* in the stream of PCM bytes the pipeline has received.                   *)
(***************************************************************************)
EXTENDS Integers, Sequences, FiniteSets, TLC

\* ---------------------------------------------------------------- bounds
MaxFrames == 4         \* room frames one audio stream delivers
MaxTracks == 2         \* trackSubscribed events emitted by the room
MaxInbound == 2        \* inbound audioPacket events

\* ------------------------------------------------------ program constants
LIVEKIT_FRAME_SIZE == 320
REQUIRED_BYTES_TO_SEND == LIVEKIT_FRAME_SIZE * 2
FRAME_SIZE == REQUIRED_BYTES_TO_SEND
MAX_BUFFER_FRAMES == 5
MAX_BUFFER_SIZE == FRAME_SIZE * MAX_BUFFER_FRAMES
SEQ_MAX == 65535
SEQ_MOD == 65536
RANDOM_LOW == 1024

\* ------------------------------------------------------------ input sets
\* byteLength of a valid room frame's sample buffer
ChunkSizes == {0, 200, 400, 640, 3000}
\* Math.floor(Date.now() / 1000) when a pipeline starts; the values sit
\* around a multiple of 65536 so that the sequence number wraps in a run
WrapClock == 27301 * SEQ_MOD - 2
Clocks == {WrapClock, 1789198400}
\* callSession.softphone.codec.timestampInterval
TimestampIntervals == {160, 320}
\* values randomInt() can return
Ssrcs == {RANDOM_LOW, SEQ_MAX}

Pipes == 1..MaxTracks
StatusEvents == {"answered", "busy", "disposed"}

VARIABLES
    registered,          \* softphone.register() of the constructor has completed
    softphoneConnected,  \* RingCentralLiveKitConnector.softphoneConnected
    ipc,                 \* position of inviteUserToRoom
    emitted,             \* lifecycle events the call session has emitted
    handlers,            \* listeners inviteUserToRoom has registered and not yet consumed
    statusLog,           \* arguments onCallStatusChange was called with
    callEnded,           \* `let callEnded` of inviteUserToRoom
    disposed,            \* callSession.disposed
    timestampInterval,   \* callSession.softphone.codec.timestampInterval
    inLog,               \* outcome of each inbound audioPacket event
    captured,            \* frames source.captureFrame accepted
    tracks,              \* trackSubscribed events emitted so far
    pipe,                \* locals of each sendLivekitAudioStreamToCallSession invocation
    calls                \* every callSession.encoder.encode call and what followed it

vars == <<registered, softphoneConnected, ipc, emitted, handlers, statusLog,
          callEnded, disposed, timestampInterval, inLog, captured, tracks,
          pipe, calls>>

connVars == <<registered, softphoneConnected, ipc>>
sessVars == <<emitted, handlers, statusLog, callEnded, disposed, timestampInterval>>
inVars == <<inLog, captured>>
outVars == <<tracks, pipe, calls>>

\* ------------------------------------------------------- Buffer operators
EmptyBuffer == << >>

\* Buffer.from(audioFrame.data.buffer, byteOffset, chunkSize): the chunk's bytes
Chunk(off, len) == IF len = 0 THEN EmptyBuffer ELSE << [off |-> off, len |-> len] >>

RECURSIVE BufLen(_)
BufLen(b) == IF b = << >> THEN 0 ELSE Head(b).len + BufLen(Tail(b))

\* Buffer.concat of two buffers (adjacent byte runs are written as one segment)
Concat2(a, b) ==
    IF a = << >> THEN b
    ELSE IF b = << >> THEN a
    ELSE LET l == a[Len(a)]
         IN IF l.off + l.len = b[1].off
            THEN SubSeq(a, 1, Len(a) - 1)
                 \o << [off |-> l.off, len |-> l.len + b[1].len] >>
                 \o Tail(b)
            ELSE a \o b

RECURSIVE BufferConcat(_)
BufferConcat(list) ==
    IF list = << >> THEN EmptyBuffer
    ELSE Concat2(Head(list), BufferConcat(Tail(list)))

\* the first n bytes of b: pcmBuffer.copy(frameBuffer, 0, 0, n)
RECURSIVE BufTake(_, _)
BufTake(b, n) ==
    IF n = 0 \/ b = << >> THEN EmptyBuffer
    ELSE IF Head(b).len <= n
         THEN << Head(b) >> \o BufTake(Tail(b), n - Head(b).len)
         ELSE << [off |-> Head(b).off, len |-> n] >>

\* b without its first n bytes: pcmBuffer.subarray(n)
RECURSIVE BufDrop(_, _)
BufDrop(b, n) ==
    IF n = 0 \/ b = << >> THEN b
    ELSE IF Head(b).len <= n
         THEN BufDrop(Tail(b), n - Head(b).len)
         ELSE << [off |-> Head(b).off + n, len |-> Head(b).len - n] >> \o Tail(b)

\* tempBuffer.reduce((sum, buf) => sum + buf.length, start)
RECURSIVE ReduceLen(_, _)
ReduceLen(list, start) ==
    IF list = << >> THEN start
    ELSE ReduceLen(Tail(list), start + BufLen(Head(list)))

\* ------------------------------------------------------------------ Init
\* locals of an invocation that has not been made yet
NoPipe ==
    [pc |-> "unstarted", callEnded |-> FALSE,
     pcmBuffer |-> EmptyBuffer, frameBuffer |-> EmptyBuffer, tempBuffer |-> << >>,
     frameCount |-> 0, totalBytesProcessed |-> 0,
     timestamp |-> 0, sequenceNumber |-> 0, ssrc |-> 0,
     initialTimestamp |-> 0, initialSequenceNumber |-> 0, delivered |-> 0, dropped |-> 0,
     exit |-> "none", pending |-> "none", disposedAtStart |-> FALSE,
     pcmReleased |-> FALSE, frameReleased |-> FALSE, tempCleared |-> FALSE,
     summaryLogged |-> FALSE]

\* the state once `new RingCentralLiveKitConnector(...)` has returned
Init ==
    /\ registered = FALSE
    /\ softphoneConnected = FALSE
    /\ ipc = "idle"
    /\ emitted = {}
    /\ handlers = {}
    /\ statusLog = << >>
    /\ callEnded = FALSE
    /\ disposed = FALSE
    /\ timestampInterval \in TimestampIntervals
    /\ inLog = << >>
    /\ captured = 0
    /\ tracks = 0
    /\ pipe = [p \in Pipes |-> NoPipe]
    /\ calls = << >>

\* no pipeline is inside a synchronous section
Quiescent == \A p \in Pipes : pipe[p].pc \notin {"slice", "finally"}

\* ------------------------------------------------- connector and session
\* the promise of softphone.register() (constructor) settles
RegisterCompletes ==
    /\ Quiescent
    /\ ~registered
    /\ registered' = TRUE
    /\ UNCHANGED <<softphoneConnected, ipc, sessVars, inVars, outVars>>

\* code outside the class writes the public field softphoneConnected
OutsideSetsConnected ==
    /\ Quiescent
    /\ ~softphoneConnected
    /\ softphoneConnected' = TRUE
    /\ UNCHANGED <<registered, ipc, sessVars, inVars, outVars>>

\* inviteUserToRoom is called: the test of line 26
InviteUserToRoom ==
    /\ Quiescent
    /\ ipc = "idle"
    /\ ipc' = IF softphoneConnected THEN "call" ELSE "waitFor"
    /\ UNCHANGED <<registered, softphoneConnected, sessVars, inVars, outVars>>

\* one poll of waitFor that finds its condition true
WaitForPoll ==
    /\ Quiescent
    /\ ipc = "waitFor"
    /\ softphoneConnected
    /\ ipc' = "call"
    /\ UNCHANGED <<registered, softphoneConnected, sessVars, inVars, outVars>>

\* softphone.call(phoneNumber) resolves with the call session
CallReturns ==
    /\ Quiescent
    /\ ipc = "call"
    /\ ipc' = "connect"
    /\ UNCHANGED <<registered, softphoneConnected, sessVars, inVars, outVars>>

\* room.connect(...) resolves
RoomConnected ==
    /\ Quiescent
    /\ ipc = "connect"
    /\ ipc' = "publish"
    /\ UNCHANGED <<registered, softphoneConnected, sessVars, inVars, outVars>>

\* the listeners lines 45-83 register
Listeners == StatusEvents \cup {"audioPacket", "trackSubscribed"}

\* publishTrack resolves; the rest of inviteUserToRoom runs to its return
TrackPublished ==
    /\ Quiescent
    /\ ipc = "publish"
    /\ ipc' = "returned"
    /\ callEnded' = FALSE
    /\ handlers' = Listeners
    /\ UNCHANGED <<registered, softphoneConnected, emitted, statusLog, disposed,
                   timestampInterval, inVars, outVars>>

\* the call session exists once softphone.call has resolved
SessionExists == ipc \in {"connect", "publish", "returned"}

\* what the `once` listener of event e does to callEnded (lines 45-57)
EndsCall(e) == e \in {"busy", "disposed"}

\* the call session emits the lifecycle event e; a registered `once`
\* listener runs and is removed
Emit(e) ==
    /\ Quiescent
    /\ SessionExists
    /\ e \notin emitted
    /\ emitted' = emitted \cup {e}
    /\ disposed' = (disposed \/ e = "disposed")
    /\ IF e \in handlers
       THEN /\ statusLog' = Append(statusLog, e)
            /\ callEnded' = (callEnded \/ EndsCall(e))
            /\ handlers' = handlers \ {e}
       ELSE UNCHANGED <<statusLog, callEnded, handlers>>
    /\ UNCHANGED <<connVars, timestampInterval, inVars, outVars>>

\* ------------------------------------------------------------ inbound path
InboundOutcomes == {"ok", "decodeThrow", "captureThrow"}

\* the try block of the audioPacket listener: frames captured by the source
CaptureFrames(outcome) == IF outcome = "ok" THEN 1 ELSE 0

\* mutant: the listener registered with `once`
AudioPacketListenerOnce(outcome) == {}

\* the listener registered with `on` stays registered whatever the packet did
AudioPacketListenerAfter(outcome) == {"audioPacket"}

\* the call session emits audioPacket (lines 59-69)
AudioPacket(outcome) ==
    /\ Quiescent
    /\ SessionExists
    /\ Len(inLog) < MaxInbound
    /\ IF "audioPacket" \in handlers
       THEN /\ inLog' = Append(inLog, outcome)
            /\ captured' = captured + CaptureFrames(outcome)
            /\ handlers' = (handlers \ {"audioPacket"}) \cup AudioPacketListenerAfter(outcome)
       ELSE /\ inLog' = Append(inLog, "unheard")
            /\ UNCHANGED <<captured, handlers>>
    /\ UNCHANGED <<connVars, emitted, statusLog, callEnded, disposed,
                   timestampInterval, outVars>>

\* ----------------------------------------------------------- outbound path
\* mutant: the wrap tested one too late, so that 65535 is followed by 65536
NextSequenceNumberLate(n) == IF n + 1 > SEQ_MOD THEN 0 ELSE n + 1

\* sequenceNumber++ with the wrap of lines 207-210
NextSequenceNumber(n) == IF n + 1 > SEQ_MAX THEN 0 ELSE n + 1

\* mutant: the timestamp advanced by the samples of a room frame
NextTimestampFixed(ts, interval) == ts + LIVEKIT_FRAME_SIZE

\* timestamp += callSession.softphone.codec.timestampInterval (line 211)
NextTimestamp(ts, interval) == ts + interval

\* the memory-protection test of line 156
Overflows(pcmLength, chunkSize) == pcmLength + chunkSize > MAX_BUFFER_SIZE

\* mutant: the concat decided by the number of pending chunks alone
ShouldConcatCountOnly(temp, pcmLength) == Len(temp) > 3

\* mutant: the concat made as soon as three chunks are pending
ShouldConcatEarly(temp, pcmLength) ==
    Len(temp) >= 3 \/ ReduceLen(temp, pcmLength) >= FRAME_SIZE

\* the concat test of line 166, tempBuffer already holding the new chunk
ShouldConcat(temp, pcmLength) ==
    Len(temp) > 3 \/ ReduceLen(temp, pcmLength) >= FRAME_SIZE

\* mutant: the slice loop left when exactly one frame is buffered
SliceConditionStrict(r) == BufLen(r.pcmBuffer) > FRAME_SIZE /\ ~r.callEnded

\* the condition of the slice loop, line 172
SliceCondition(r) == BufLen(r.pcmBuffer) >= FRAME_SIZE /\ ~r.callEnded

\* mutant: the loop without its early-exit test
EarlyExitNever(r) == FALSE

\* the early-exit test of line 136
EarlyExit(r) == r.callEnded

\* the value of the parameter callEnded the trackSubscribed listener passes
\* (line 81): the boolean as it is at the call
CallEndedArgument == callEnded

\* what is still propagating after `catch (err) { ...; continue }` (line 217)
InnerCatch(e) == "none"

\* what is still propagating after `catch (error)` of line 223
OuterCatch(e) == "none"

\* mutant: the cleanup without its try/catch
CleanupCatchMissing(e) == e

\* what is still propagating after `catch (cleanupError)` of line 258
CleanupCatch(e) == "none"

\* mutant: the invocation without the test of callSession.disposed
StartPipelineUnchecked(now, id) ==
    [NoPipe EXCEPT !.pc = "await",
                   !.disposedAtStart = disposed,
                   !.callEnded = CallEndedArgument,
                   !.timestamp = now,
                   !.initialTimestamp = now,
                   !.sequenceNumber = now % SEQ_MOD,
                   !.initialSequenceNumber = now % SEQ_MOD,
                   !.ssrc = id]

\* lines 103-131: the invocation up to its first await
StartPipeline(now, id) ==
    IF disposed
    THEN [NoPipe EXCEPT !.pc = "resolved", !.exit = "aborted",
                        !.disposedAtStart = TRUE,
                        !.callEnded = CallEndedArgument]
    ELSE [NoPipe EXCEPT !.pc = "await",
                        !.callEnded = CallEndedArgument,
                        !.timestamp = now,
                        !.initialTimestamp = now,
                        !.sequenceNumber = now % SEQ_MOD,
                        !.initialSequenceNumber = now % SEQ_MOD,
                        !.ssrc = id]

\* the room emits trackSubscribed (lines 71-83); now and id are what
\* Date.now() / 1000 and randomInt() give the invocation it starts
TrackSubscribed(kind, identityMatches, now, id) ==
    /\ Quiescent
    /\ "trackSubscribed" \in handlers
    /\ tracks < MaxTracks
    /\ tracks' = tracks + 1
    /\ IF kind = "audio" /\ identityMatches
       THEN pipe' = [pipe EXCEPT ![tracks + 1] = StartPipeline(now, id)]
       ELSE UNCHANGED pipe
    /\ UNCHANGED <<connVars, sessVars, inVars, calls>>

\* lines 147-170 for a valid frame of chunkSize bytes
Accumulate(r, chunkSize) ==
    LET chunk == Chunk(r.totalBytesProcessed, chunkSize)
        over == Overflows(BufLen(r.pcmBuffer), chunkSize)
        pcm1 == IF over THEN EmptyBuffer ELSE r.pcmBuffer
        temp1 == IF over THEN << >> ELSE r.tempBuffer
        temp2 == Append(temp1, chunk)
        merge == ShouldConcat(temp2, BufLen(pcm1))
    IN [r EXCEPT !.frameCount = @ + 1,
                 !.totalBytesProcessed = @ + chunkSize,
                 !.dropped = IF over
                             THEN @ + ReduceLen(r.tempBuffer, BufLen(r.pcmBuffer))
                             ELSE @,
                 !.pcmBuffer = IF merge THEN BufferConcat(<< pcm1 >> \o temp2) ELSE pcm1,
                 !.tempBuffer = IF merge THEN << >> ELSE temp2,
                 !.pc = "slice"]

\* the audio stream yields a frame: lines 134-170
NextFrame(p, valid, chunkSize) ==
    /\ Quiescent
    /\ pipe[p].pc = "await"
    /\ pipe[p].delivered < MaxFrames
    /\ LET r == [pipe[p] EXCEPT !.delivered = @ + 1]
       IN pipe' = [pipe EXCEPT ![p] =
                      IF EarlyExit(r) THEN [r EXCEPT !.pc = "breaking", !.exit = "break"]
                      ELSE IF ~valid THEN r
                      ELSE Accumulate(r, chunkSize)]
    /\ UNCHANGED <<connVars, sessVars, inVars, tracks, calls>>

EncodeOutcomes == {"ok", "encodeThrow", "packetThrow", "sendThrow"}

\* the outcomes in which callSession.sendPacket was called
SendPacketCalled(outcome) == outcome \in {"ok", "sendThrow"}

\* mutant: sequence number and timestamp advanced ahead of the encoding
AdvancesAlways(outcome) == TRUE

\* the outcomes in which lines 207-211 were reached
Advances(outcome) == outcome \in {"ok", "sendThrow"}

\* mutant: the buffer advanced by the samples of a frame, not its bytes
SliceOffSamples(pcm) == BufDrop(pcm, LIVEKIT_FRAME_SIZE)

\* the accumulation buffer once a frame has been copied out of it
\* (lines 177-180)
SliceOff(pcm) ==
    IF BufLen(pcm) = FRAME_SIZE THEN EmptyBuffer ELSE BufDrop(pcm, FRAME_SIZE)

\* one iteration of the slice loop, lines 172-221
EncodeSend(p, outcome) ==
    /\ pipe[p].pc = "slice"
    /\ SliceCondition(pipe[p])
    /\ LET r == pipe[p]
           frame == BufTake(r.pcmBuffer, FRAME_SIZE)
           rest == SliceOff(r.pcmBuffer)
           thrown == IF outcome = "ok" THEN "none" ELSE InnerCatch(outcome)
           r1 == [r EXCEPT !.frameBuffer = frame,
                           !.pcmBuffer = rest,
                           !.sequenceNumber = IF Advances(outcome)
                                              THEN NextSequenceNumber(@) ELSE @,
                           !.timestamp = IF Advances(outcome)
                                         THEN NextTimestamp(@, timestampInterval) ELSE @]
       IN /\ calls' = Append(calls,
                        [pipe |-> p, frame |-> frame, outcome |-> outcome,
                         sequenceNumber |-> r.sequenceNumber,
                         timestamp |-> r.timestamp, ssrc |-> r.ssrc,
                         ended |-> callEnded, dropped |-> r.dropped])
          /\ pipe' = [pipe EXCEPT ![p] =
                        IF thrown = "none" THEN r1
                        ELSE [r1 EXCEPT !.pc = "finally", !.exit = "error",
                                        !.pending = OuterCatch(thrown)]]
    /\ UNCHANGED <<connVars, sessVars, inVars, tracks>>

\* the slice loop's condition is false: back to `for await`
SliceDone(p) ==
    /\ pipe[p].pc = "slice"
    /\ ~SliceCondition(pipe[p])
    /\ pipe' = [pipe EXCEPT ![p].pc = "await"]
    /\ UNCHANGED <<connVars, sessVars, inVars, tracks, calls>>

\* the audio stream ends: the loop is left normally
StreamEnds(p) ==
    /\ Quiescent
    /\ pipe[p].pc = "await"
    /\ pipe' = [pipe EXCEPT ![p].pc = "finally", ![p].exit = "ended"]
    /\ UNCHANGED <<connVars, sessVars, inVars, tracks, calls>>

\* iterating the audio stream throws: catch of line 223
StreamThrows(p) ==
    /\ Quiescent
    /\ pipe[p].pc = "await"
    /\ pipe' = [pipe EXCEPT ![p].pc = "finally", ![p].exit = "error",
                            ![p].pending = OuterCatch("streamThrow")]
    /\ UNCHANGED <<connVars, sessVars, inVars, tracks, calls>>

\* the iterator's return() awaited after `break` settles
ReturnSettles(p, throws) ==
    /\ Quiescent
    /\ pipe[p].pc = "breaking"
    /\ pipe' = [pipe EXCEPT ![p].pc = "finally",
                            ![p].pending = IF throws THEN OuterCatch("returnThrow")
                                           ELSE "none"]
    /\ UNCHANGED <<connVars, sessVars, inVars, tracks, calls>>

\* the finally block, lines 225-262; failAt = k > 0: its k-th step throws
\* (1 pcmBuffer, 2 frameBuffer, 3 tempBuffer, 4 the summary log)
CleanupSteps == 4

\* mutant: a cleanup that leaves the pending chunks as they are
StepDoneButPending(k, failAt) == k # 3 /\ (failAt = 0 \/ k < failAt)

\* the k-th step of the finally block has run when its failAt-th step threw
\* (failAt = 0: none did)
StepDone(k, failAt) == failAt = 0 \/ k < failAt

Cleanup(p, failAt) ==
    /\ pipe[p].pc = "finally"
    /\ LET r == pipe[p]
           done(k) == StepDone(k, failAt)
           after == IF failAt = 0 THEN r.pending
                    ELSE CleanupCatch("cleanupThrow")
       IN pipe' = [pipe EXCEPT ![p] =
                     [r EXCEPT !.pcmReleased = done(1),
                               !.pcmBuffer = IF done(1) THEN EmptyBuffer ELSE @,
                               !.frameReleased = done(2),
                               !.frameBuffer = IF done(2) THEN EmptyBuffer ELSE @,
                               !.tempCleared = done(3),
                               !.tempBuffer = IF done(3) THEN << >> ELSE @,
                               !.summaryLogged = done(4),
                               !.pending = after,
                               !.pc = IF after = "none" THEN "resolved" ELSE "rejected"]]
    /\ UNCHANGED <<connVars, sessVars, inVars, tracks, calls>>

\* ------------------------------------------------------------------ Next
\* inviteUserToRoom from its call to its return, the softphoneConnected
\* field having been set from outside
Setup ==
    \/ OutsideSetsConnected
    \/ InviteUserToRoom
    \/ WaitForPoll
    \/ CallReturns
    \/ RoomConnected
    \/ TrackPublished

\* a room frame: invalid, or valid with a sample buffer of n bytes
Frames(sizes) == [valid : {TRUE}, size : sizes] \cup {[valid |-> FALSE, size |-> 0]}

\* the whole connector
Next ==
    \/ RegisterCompletes
    \/ Setup
    \/ \E e \in StatusEvents : Emit(e)
    \/ \E o \in InboundOutcomes : AudioPacket(o)
    \/ \E k \in {"audio", "video"}, m \in BOOLEAN, now \in Clocks, id \in Ssrcs :
          TrackSubscribed(k, m, now, id)
    \/ \E p \in Pipes, f \in Frames(ChunkSizes) : NextFrame(p, f.valid, f.size)
    \/ \E p \in Pipes, o \in EncodeOutcomes : EncodeSend(p, o)
    \/ \E p \in Pipes : SliceDone(p)
    \/ \E p \in Pipes : StreamEnds(p)
    \/ \E p \in Pipes : StreamThrows(p)
    \/ \E p \in Pipes, t \in BOOLEAN : ReturnSettles(p, t)
    \/ \E p \in Pipes, k \in 0..CleanupSteps : Cleanup(p, k)

Spec == Init /\ [][Next]_vars

\* The specifications below are Spec with the environment narrowed: each of
\* their steps is a step of Next.

\* a call that ends (busy, disposed) with up to MaxTracks outbound
\* pipelines, fed room frames of exactly one 20 ms frame
NextCall ==
    \/ Setup
    \/ \E e \in {"busy", "disposed"} : Emit(e)
    \/ \E k \in {"audio", "video"}, id \in Ssrcs : TrackSubscribed(k, TRUE, WrapClock, id)
    \/ \E p \in Pipes : NextFrame(p, TRUE, FRAME_SIZE)
    \/ \E p \in Pipes : EncodeSend(p, "ok")
    \/ \E p \in Pipes : SliceDone(p)
    \/ \E p \in Pipes : StreamEnds(p)
    \/ \E p \in Pipes : ReturnSettles(p, FALSE)
    \/ \E p \in Pipes : Cleanup(p, 0)

SpecCall == Init /\ [][NextCall]_vars

\* one outbound pipeline on a live call, fed frames of every size of
\* ChunkSizes: the buffering of lines 147-181
NextBuffer ==
    \/ Setup
    \/ /\ tracks = 0
       /\ TrackSubscribed("audio", TRUE, WrapClock, RANDOM_LOW)
    \/ \E f \in Frames(ChunkSizes) : NextFrame(1, f.valid, f.size)
    \/ EncodeSend(1, "ok")
    \/ SliceDone(1)
    \/ StreamEnds(1)
    \/ Cleanup(1, 0)

SpecBuffer == Init /\ [][NextBuffer]_vars

\* one outbound pipeline on a live call whose encoder and sendPacket can
\* throw: the RTP bookkeeping of lines 182-221
NextRtp ==
    \/ Setup
    \/ /\ tracks = 0
       /\ \E now \in Clocks : TrackSubscribed("audio", TRUE, now, RANDOM_LOW)
    \/ \E n \in {FRAME_SIZE, 2 * FRAME_SIZE} : NextFrame(1, TRUE, n)
    \/ \E o \in {"ok", "encodeThrow", "sendThrow"} : EncodeSend(1, o)
    \/ SliceDone(1)
    \/ StreamEnds(1)
    \/ Cleanup(1, 0)

SpecRtp == Init /\ [][NextRtp]_vars

\* one outbound pipeline with every source of exceptions: the slice loop,
\* the stream, the iterator's return() and the cleanup
NextFailures ==
    \/ Setup
    \/ Emit("busy")
    \/ /\ tracks = 0
       /\ TrackSubscribed("audio", TRUE, WrapClock, RANDOM_LOW)
    \/ NextFrame(1, TRUE, FRAME_SIZE)
    \/ \E o \in EncodeOutcomes : EncodeSend(1, o)
    \/ SliceDone(1)
    \/ StreamEnds(1)
    \/ StreamThrows(1)
    \/ \E t \in BOOLEAN : ReturnSettles(1, t)
    \/ \E k \in 0..CleanupSteps : Cleanup(1, k)

SpecFailures == Init /\ [][NextFailures]_vars

\* one outbound pipeline on a call that may have ended before the track was
\* subscribed, with every way out of the loop: source end, stream error and
\* break
NextExit ==
    \/ Setup
    \/ \E e \in {"busy", "disposed"} : Emit(e)
    \/ /\ tracks = 0
       /\ TrackSubscribed("audio", TRUE, WrapClock, RANDOM_LOW)
    \/ \E n \in {400, FRAME_SIZE} : NextFrame(1, TRUE, n)
    \/ EncodeSend(1, "ok")
    \/ SliceDone(1)
    \/ StreamEnds(1)
    \/ StreamThrows(1)
    \/ \E t \in BOOLEAN : ReturnSettles(1, t)
    \/ Cleanup(1, 0)

SpecExit == Init /\ [][NextExit]_vars

\* the inbound path: lifecycle events and audioPacket events
NextInbound ==
    \/ Setup
    \/ \E e \in StatusEvents : Emit(e)
    \/ \E o \in InboundOutcomes : AudioPacket(o)

SpecInbound == Init /\ [][NextInbound]_vars

\* the call's start-up: the registration of the constructor, inviteUserToRoom
\* and the events of the call session
NextRegister ==
    \/ RegisterCompletes
    \/ NextInbound

SpecRegister == Init /\ [][NextRegister]_vars

\* ---------------------------------------------------------------- claims
\* the encoder calls of pipeline p, in order
EncoderCalls(p) == SelectSeq(calls, LAMBDA c : c.pipe = p)

\* the packets pipeline p passed to callSession.sendPacket, in order
Packets(p) == SelectSeq(calls, LAMBDA c : c.pipe = p /\ SendPacketCalled(c.outcome))

RECURSIVE SumFrames(_)
SumFrames(cs) == IF cs = << >> THEN 0 ELSE BufLen(Head(cs).frame) + SumFrames(Tail(cs))

\* the unsent PCM bytes a pipeline holds: accumulation buffer plus pending list
Unsent(r) == ReduceLen(r.tempBuffer, BufLen(r.pcmBuffer))

\* pipeline p takes a valid room frame in this step
TakesFrame(p) == pipe[p].pc = "await" /\ pipe'[p].pc = "slice"

\* pipeline p runs one iteration of its slice loop in this step
Slices(p) == pipe[p].pc = "slice" /\ Len(calls') = Len(calls) + 1

\* C1: once busy or disposed has set the call-ended flag, no pipeline calls
\* callSession.sendPacket any more: no packet is passed to sendPacket in a
\* state where callEnded is true.
C1_NoSendAfterCallEnded ==
    \A i \in 1..Len(calls) : SendPacketCalled(calls[i].outcome) => ~calls[i].ended

\* C2 as stated: when the source has ended, the bytes passed to the encoder
\* are the bytes received minus (received mod 640), in frames of 640 bytes.
C2_EncodedIsReceivedRoundedDown ==
    \A p \in Pipes :
        pipe[p].exit = "ended" =>
            /\ SumFrames(EncoderCalls(p))
                 = pipe[p].totalBytesProcessed
                   - (pipe[p].totalBytesProcessed % FRAME_SIZE)
            /\ \A i \in 1..Len(EncoderCalls(p)) :
                   BufLen(EncoderCalls(p)[i].frame) = FRAME_SIZE

\* C2 amended: when the source has ended, the bytes passed to the encoder are
\* the bytes received that overflow protection did not discard, rounded down
\* to a multiple of 640, and every encoder call got exactly 640 bytes.
C2_EncodedIsKeptRoundedDown ==
    \A p \in Pipes :
        LET kept == pipe[p].totalBytesProcessed - pipe[p].dropped
        IN /\ pipe[p].exit = "ended" =>
                 SumFrames(EncoderCalls(p)) = kept - (kept % FRAME_SIZE)
           /\ \A i \in 1..Len(EncoderCalls(p)) :
                 BufLen(EncoderCalls(p)[i].frame) = FRAME_SIZE

\* a source that ended after an overflow discard, leaving a partial frame
C2_Witness ==
    \E p \in Pipes :
        /\ pipe[p].exit = "ended"
        /\ pipe[p].dropped > 0
        /\ Len(EncoderCalls(p)) > 1
        /\ (pipe[p].totalBytesProcessed - pipe[p].dropped) % FRAME_SIZE # 0

\* C3: the N-th packet a pipeline passes to sendPacket carries sequence
\* number (initial + N - 1) mod 65536, which lies in 0..65535.
C3_SequenceNumbers ==
    \A p \in Pipes : \A n \in 1..Len(Packets(p)) :
        /\ Packets(p)[n].sequenceNumber
             = (pipe[p].initialSequenceNumber + n - 1) % SEQ_MOD
        /\ Packets(p)[n].sequenceNumber \in 0..SEQ_MAX

\* a run whose sequence numbers went from 65535 on to 0
C3_Witness ==
    \E p \in Pipes : \E n \in 1..Len(Packets(p)) :
        /\ n > 1
        /\ Packets(p)[n - 1].sequenceNumber = SEQ_MAX
        /\ Packets(p)[n].sequenceNumber = 0

\* C4: the N-th packet a pipeline passes to sendPacket carries timestamp
\* initial + (N - 1) * codec.timestampInterval.
C4_Timestamps ==
    \A p \in Pipes : \A n \in 1..Len(Packets(p)) :
        Packets(p)[n].timestamp
          = pipe[p].initialTimestamp + (n - 1) * timestampInterval

\* a third packet, sent after a frame whose encoding failed
C4_Witness ==
    \E p \in Pipes :
        /\ Len(Packets(p)) >= 3
        /\ \E i \in 1..Len(calls) : calls[i].pipe = p /\ calls[i].outcome = "encodeThrow"
        /\ timestampInterval # LIVEKIT_FRAME_SIZE

\* C5: a room frame whose bytes would bring the unsent bytes (accumulation
\* buffer plus pending list) above 3200 finds both emptied first: after it is
\* accumulated the pipeline holds the new chunk alone.
C5_DiscardsWhenUnsentWouldExceed ==
    [][\A p \in Pipes :
          LET chunkSize == pipe'[p].totalBytesProcessed - pipe[p].totalBytesProcessed
          IN (TakesFrame(p) /\ Unsent(pipe[p]) + chunkSize > MAX_BUFFER_SIZE)
                => Unsent(pipe'[p]) = chunkSize]_vars

\* C6: a pipeline never holds more than 3200 unsent PCM bytes.
C6_UnsentNeverExceedsCeiling ==
    \A p \in Pipes : Unsent(pipe[p]) <= MAX_BUFFER_SIZE

\* what every iteration of the slice loop does to the buffer, whatever its
\* outcome: the frame leaves the front of the accumulation buffer for good
\* and the loop goes on
DropsFrameAndContinues(p) ==
    /\ pipe'[p].pcmBuffer = BufDrop(pipe[p].pcmBuffer, FRAME_SIZE)
    /\ pipe'[p].frameBuffer = BufTake(pipe[p].pcmBuffer, FRAME_SIZE)
    /\ pipe'[p].tempBuffer = pipe[p].tempBuffer
    /\ pipe'[p].pc = "slice"

SameNumbers(p) ==
    /\ pipe'[p].sequenceNumber = pipe[p].sequenceNumber
    /\ pipe'[p].timestamp = pipe[p].timestamp

\* C7 as stated: a frame the encoder throws on is dropped, nothing is sent
\* for it and the loop continues; sequence number and timestamp advance only
\* for frames whose packet was sent successfully.
C7_AdvanceOnlyWhenSent ==
    [][\A p \in Pipes :
          Slices(p) =>
             LET outcome == calls'[Len(calls')].outcome
             IN /\ outcome = "encodeThrow" =>
                      (DropsFrameAndContinues(p) /\ SameNumbers(p))
                /\ ~SameNumbers(p) => outcome = "ok"]_vars

\* C7 amended: a frame the encoder throws on is dropped, nothing is sent for
\* it, the loop continues, and sequence number and timestamp stay as they
\* were; both advance exactly for the frames whose packet was handed to
\* sendPacket, whether or not sendPacket then threw.
C7_AdvanceWhenHandedToSendPacket ==
    [][\A p \in Pipes :
          Slices(p) =>
             LET outcome == calls'[Len(calls')].outcome
             IN /\ DropsFrameAndContinues(p)
                /\ outcome = "encodeThrow" =>
                      (SameNumbers(p) /\ ~SendPacketCalled(outcome))
                /\ SameNumbers(p) <=> ~SendPacketCalled(outcome)
                /\ ~SameNumbers(p) =>
                      /\ pipe'[p].sequenceNumber
                           = (pipe[p].sequenceNumber + 1) % SEQ_MOD
                      /\ pipe'[p].timestamp = pipe[p].timestamp + timestampInterval]_vars

\* a frame whose encoding failed, then the next buffered frame sent under
\* the sequence number the failed frame left untouched
C7_Witness ==
    \E i \in 1..Len(calls) :
        /\ i > 1
        /\ calls[i - 1].outcome = "encodeThrow"
        /\ calls[i].outcome = "ok"
        /\ calls[i].pipe = calls[i - 1].pipe
        /\ calls[i].sequenceNumber = calls[i - 1].sequenceNumber
        /\ calls[i].frame[1].off = calls[i - 1].frame[1].off + FRAME_SIZE
        /\ pipe[calls[i].pipe].pc = "slice"

\* C8: a pipeline that reaches its checkpoint (the stream delivers the next
\* room frame) while the call-ended flag is true leaves its loop.
C8_LeavesLoopAtCheckpoint ==
    [][\A p \in Pipes :
          (/\ callEnded
           /\ pipe[p].pc = "await"
           /\ pipe'[p].delivered = pipe[p].delivered + 1)
             => pipe'[p].pc = "breaking"]_vars

\* the number of entries of log that are x
RECURSIVE Count(_, _)
Count(log, x) ==
    IF log = << >> THEN 0
    ELSE (IF Head(log) = x THEN 1 ELSE 0) + Count(Tail(log), x)

\* C9: an inbound packet whose decode or capture throws publishes no frame
\* and leaves the handler in place: the frames captured are exactly the
\* packets that went through cleanly, and once the handler is registered no
\* packet goes unheard.
C9_InboundSurvivesFailures ==
    /\ captured = Count(inLog, "ok")
    /\ ipc = "returned" => "audioPacket" \in handlers
    /\ \A i, j \in 1..Len(inLog) :
          (i < j /\ inLog[i] # "unheard") => inLog[j] # "unheard"

\* a packet that failed to decode, then a valid packet that was captured
C9_Witness ==
    \E i \in 1..Len(inLog) :
        /\ i > 1
        /\ inLog[i - 1] \in {"decodeThrow", "captureThrow"}
        /\ inLog[i] = "ok"
        /\ captured = 1

\* C10: the promise of sendLivekitAudioStreamToCallSession never rejects.
C10_NeverRejects ==
    \A p \in Pipes : pipe[p].pc # "rejected" /\ pipe[p].pending = "none"

\* a run that resolved although the encoder, the packet construction,
\* sendPacket, the stream and the cleanup have all thrown
C10_Witness ==
    \E p \in Pipes :
        /\ pipe[p].pc = "resolved"
        /\ pipe[p].exit = "error"
        /\ ~pipe[p].summaryLogged
        /\ \A o \in EncodeOutcomes \ {"ok"} :
              \E i \in 1..Len(calls) : calls[i].pipe = p /\ calls[i].outcome = o

\* pipeline p has finished a room frame and waits for the next, call not ended
FrameFinished(p) ==
    /\ pipe[p].pc = "await"
    /\ pipe[p].frameCount > 0
    /\ ~callEnded /\ ~pipe[p].callEnded

\* C11 as stated: after each room frame floor(T / 640) frames have been
\* encoded and sent and the accumulation buffer holds T mod 640 bytes, T the
\* bytes received so far.
C11_BufferHoldsRemainder ==
    \A p \in Pipes :
        FrameFinished(p) =>
            /\ Len(Packets(p)) = pipe[p].totalBytesProcessed \div FRAME_SIZE
            /\ BufLen(pipe[p].pcmBuffer) = pipe[p].totalBytesProcessed % FRAME_SIZE

\* C11 amended: after each room frame floor(K / 640) frames have been sliced
\* off and passed to the encoder, and K mod 640 bytes are retained in the
\* accumulation buffer and the pending list together, K being the bytes
\* received so far minus those overflow protection discarded.
C11_UnsentHoldsRemainder ==
    \A p \in Pipes :
        FrameFinished(p) =>
            LET kept == pipe[p].totalBytesProcessed - pipe[p].dropped
            IN /\ Len(EncoderCalls(p)) = kept \div FRAME_SIZE
               /\ Unsent(pipe[p]) = kept % FRAME_SIZE

\* frames of 400, 400 and 200 bytes: one frame sent, 160 bytes in the
\* accumulation buffer and the last 200 in the pending list
C11_Witness ==
    \E p \in Pipes :
        /\ FrameFinished(p)
        /\ pipe[p].frameCount = 3 /\ pipe[p].delivered = 3
        /\ pipe[p].totalBytesProcessed = 1000
        /\ Len(Packets(p)) = 1
        /\ Packets(p)[1].frame = << [off |-> 0, len |-> FRAME_SIZE] >>
        /\ pipe[p].pcmBuffer = << [off |-> FRAME_SIZE, len |-> 160] >>
        /\ pipe[p].tempBuffer = << << [off |-> 800, len |-> 200] >> >>

\* the phases of an outbound pipeline: 0 not started, 1 RUNNING (in its
\* loop), 2 DRAINING (loop left, cleanup not yet done), 3 TERMINATED
Phase(r) ==
    CASE r.pc = "unstarted" -> 0
      [] r.pc \in {"await", "slice"} -> 1
      [] r.pc \in {"breaking", "finally"} -> 2
      [] OTHER -> 3

\* the finally block has run to its end
CleanedUp(r) ==
    /\ r.pcmReleased /\ r.pcmBuffer = EmptyBuffer
    /\ r.frameReleased /\ r.frameBuffer = EmptyBuffer
    /\ r.tempCleared /\ r.tempBuffer = << >>
    /\ r.summaryLogged

\* C12: the phases of a pipeline only move forward; a pipeline that finds
\* its call-ended flag true at the checkpoint of a delivered frame leaves the
\* loop without processing the frame; once it has left the loop it encodes
\* and accumulates nothing more; and it terminates out of the finally block
\* only, with the cleanup done.
C12_PhasesMoveForward ==
    [][\A p \in Pipes :
          /\ Phase(pipe'[p]) >= Phase(pipe[p])
          /\ (/\ pipe[p].pc = "await"
              /\ pipe[p].callEnded
              /\ pipe'[p].delivered = pipe[p].delivered + 1)
                => (pipe'[p].pc = "breaking" /\ pipe'[p].exit = "break")
          /\ Phase(pipe[p]) >= 2 =>
                /\ pipe'[p].frameCount = pipe[p].frameCount
                /\ pipe'[p].sequenceNumber = pipe[p].sequenceNumber
                /\ Len(calls') > Len(calls) => calls'[Len(calls')].pipe # p
          /\ (Phase(pipe[p]) \in {1, 2} /\ Phase(pipe'[p]) = 3) =>
                (pipe[p].pc = "finally" /\ CleanedUp(pipe'[p]))]_vars

\* a pipeline that observed call-ended on a delivered frame, left its loop
\* and terminated after the cleanup
C12_Witness ==
    \E p \in Pipes :
        /\ pipe[p].pc = "resolved"
        /\ pipe[p].exit = "break"
        /\ pipe[p].delivered = 1
        /\ pipe[p].frameCount = 0
        /\ CleanedUp(pipe[p])

\* C13: a pipeline that left its loop - source ended, stream error or break -
\* has settled only with the cleanup done: accumulation buffer, scratch
\* buffer and pending chunks zeroed and released, summary log written.
C13_CleanupBeforeSettling ==
    \A p \in Pipes :
        (pipe[p].pc \in {"resolved", "rejected"}
           /\ pipe[p].exit \in {"ended", "error", "break"})
          => CleanedUp(pipe[p])

\* a stream error with a frame sent and bytes still buffered, cleaned up
C13_Witness ==
    \E p \in Pipes :
        /\ pipe[p].pc = "resolved"
        /\ pipe[p].exit = "error"
        /\ Len(EncoderCalls(p)) > 0
        /\ pipe[p].totalBytesProcessed % FRAME_SIZE # 0
        /\ CleanedUp(pipe[p])

\* C14: a room frame without a non-empty sample buffer (no data, no buffer
\* or zero bytes of samples: a delivered frame that adds no byte) leaves
\* frame counter, byte counter, accumulation buffer, pending list, sequence
\* number and timestamp as they were, and nothing is sent for it.
C14_EmptyFrameSkipped ==
    [][\A p \in Pipes :
          (/\ pipe[p].pc = "await"
           /\ ~pipe[p].callEnded
           /\ pipe'[p].delivered = pipe[p].delivered + 1
           /\ pipe'[p].totalBytesProcessed = pipe[p].totalBytesProcessed)
             => /\ pipe'[p].frameCount = pipe[p].frameCount
                /\ pipe'[p].pcmBuffer = pipe[p].pcmBuffer
                /\ pipe'[p].tempBuffer = pipe[p].tempBuffer
                /\ pipe'[p].sequenceNumber = pipe[p].sequenceNumber
                /\ pipe'[p].timestamp = pipe[p].timestamp
                /\ calls' = calls]_vars

\* C15: on every accumulated room frame the pending chunks are merged into
\* the accumulation buffer exactly when, the new chunk counted, they are more
\* than 3 or pending plus accumulated bytes reach 640; so a pipeline never
\* holds more than 3 pending chunks after a frame, nor pending chunks
\* together with 640 buffered bytes or more.
C15_MergeExactlyWhenDue ==
    /\ [](\A p \in Pipes :
             /\ Len(pipe[p].tempBuffer) <= 3
             /\ pipe[p].tempBuffer # << >> => Unsent(pipe[p]) < FRAME_SIZE)
    /\ [][\A p \in Pipes :
             TakesFrame(p) =>
                LET chunkSize == pipe'[p].totalBytesProcessed
                                   - pipe[p].totalBytesProcessed
                    discarded == pipe'[p].dropped # pipe[p].dropped
                                   \/ BufLen(pipe[p].pcmBuffer) + chunkSize
                                        > MAX_BUFFER_SIZE
                    pending == IF discarded THEN 1
                               ELSE Len(pipe[p].tempBuffer) + 1
                    bytes == IF discarded THEN chunkSize
                             ELSE Unsent(pipe[p]) + chunkSize
                    due == pending > 3 \/ bytes >= FRAME_SIZE
                IN /\ due => /\ pipe'[p].tempBuffer = << >>
                             /\ BufLen(pipe'[p].pcmBuffer) = bytes
                   /\ ~due => /\ Len(pipe'[p].tempBuffer) = pending
                              /\ pipe'[p].pcmBuffer = pipe[p].pcmBuffer]_vars

\* a merge made for the number of pending chunks alone: the fourth chunk
\* arrives with fewer than 640 bytes buffered
C15_Witness ==
    \E p \in Pipes :
        /\ pipe[p].frameCount = 4
        /\ pipe[p].tempBuffer = << >>
        /\ BufLen(pipe[p].pcmBuffer) \in 1..(FRAME_SIZE - 1)
        /\ BufLen(pipe[p].pcmBuffer) = pipe[p].totalBytesProcessed
        /\ EncoderCalls(p) = << >>

\* the unsent bytes of a pipeline in buffer order
UnsentBytes(r) == BufferConcat(<< r.pcmBuffer >> \o r.tempBuffer)

\* C16: the frames handed to the encoder are consecutive, non-overlapping
\* 640-byte windows of the received bytes in arrival order: a frame starts
\* where the frame before it ended unless an overflow discard came between,
\* and never before; the unsent bytes are the received bytes that follow;
\* and the accumulation buffer shrinks only by one frame taken from its front
\* or by an overflow discard of all unsent bytes.
C16_ConsecutiveWindows ==
    /\ [](\A p \in Pipes :
             LET cs == EncoderCalls(p)
                 u == UnsentBytes(pipe[p])
             IN /\ \A i \in 1..Len(cs) :
                      /\ Len(cs[i].frame) = 1
                      /\ cs[i].frame[1].len = FRAME_SIZE
                      /\ (i = 1 /\ cs[i].dropped = 0) => cs[i].frame[1].off = 0
                      /\ i > 1 =>
                           /\ cs[i].frame[1].off >= cs[i - 1].frame[1].off + FRAME_SIZE
                           /\ cs[i].dropped = cs[i - 1].dropped =>
                                cs[i].frame[1].off = cs[i - 1].frame[1].off + FRAME_SIZE
                /\ (pipe[p].pc \in {"await", "slice"} /\ u # << >>) =>
                      /\ Len(u) = 1
                      /\ u[1].off + u[1].len = pipe[p].totalBytesProcessed
                      /\ (cs # << >> /\ cs[Len(cs)].dropped = pipe[p].dropped) =>
                            u[1].off = cs[Len(cs)].frame[1].off + FRAME_SIZE)
    /\ [][\A p \in Pipes :
             (/\ pipe[p].pc \in {"await", "slice"}
              /\ BufLen(pipe'[p].pcmBuffer) < BufLen(pipe[p].pcmBuffer))
                => \/ /\ Slices(p)
                      /\ pipe'[p].frameBuffer = BufTake(pipe[p].pcmBuffer, FRAME_SIZE)
                      /\ pipe'[p].pcmBuffer = BufDrop(pipe[p].pcmBuffer, FRAME_SIZE)
                   \/ /\ TakesFrame(p)
                      /\ pipe'[p].dropped = pipe[p].dropped + Unsent(pipe[p])]_vars

\* frames encoded before and after an overflow discard, the later ones
\* consecutive windows again
C16_Witness ==
    \E p \in Pipes :
        LET cs == EncoderCalls(p)
        IN /\ Len(cs) >= 3
           /\ cs[1].dropped = 0
           /\ cs[2].dropped > 0
           /\ cs[2].frame[1].off = cs[1].frame[1].off + FRAME_SIZE + cs[2].dropped
           /\ cs[3].frame[1].off = cs[2].frame[1].off + FRAME_SIZE

\* C17: a pipeline started when the call had already ended - callSession
\* disposed at the invocation, or the call-ended flag true when the track was
\* subscribed - hands nothing to the encoder and sends no packet, whatever
\* the stream delivers.
C17_NothingSentAfterEnd ==
    \A p \in Pipes :
        (pipe[p].disposedAtStart \/ pipe[p].callEnded) =>
            /\ EncoderCalls(p) = << >>
            /\ pipe[p].frameCount = 0

\* a pipeline started after busy on a call not yet disposed: the stream
\* delivered a frame and the pipeline ended without a packet
C17_Witness ==
    \E p \in Pipes :
        /\ pipe[p].callEnded
        /\ ~pipe[p].disposedAtStart
        /\ pipe[p].delivered >= 1
        /\ pipe[p].pc = "resolved"
        /\ Packets(p) = << >>

\* C18: every answered, busy or disposed event the call session emits after
\* softphone.call returned it is delivered to onCallStatusChange, and every
\* such busy or disposed sets the call-ended flag, also when it is emitted
\* while room.connect or publishTrack is still pending.
C18_EveryEventDelivered ==
    \A e \in emitted :
        /\ \E i \in DOMAIN statusLog : statusLog[i] = e
        /\ EndsCall(e) => callEnded

\* C19: once the registration of the constructor has completed, an
\* inviteUserToRoom that waits for it can leave the wait and place the call,
\* with no write of softphoneConnected from outside the class.
C19_WaitEndsAfterRegistration ==
    (registered /\ ipc = "waitFor") => ENABLED WaitForPoll

\* every packet passed to callSession.sendPacket, in order
AllPackets == SelectSeq(calls, LAMBDA c : SendPacketCalled(c.outcome))

\* C20: for one call session, consecutive packets received by sendPacket
\* carry the same ssrc and sequence numbers that advance by 1 mod 65536,
\* however many remote audio tracks were subscribed.
C20_OneStreamPerSession ==
    \A i \in 1..(Len(AllPackets) - 1) :
        /\ AllPackets[i + 1].ssrc = AllPackets[i].ssrc
        /\ AllPackets[i + 1].sequenceNumber = (AllPackets[i].sequenceNumber + 1) % SEQ_MOD

====
